---- MODULE Spec2Model ----
(***************************************************************************)
(* Model of fuzzer/diff_fuzzer/cairo_program_gen.py.                       *)
(*                                                                         *)
(* A Python string is a sequence of one-character strings, so that find,   *)
(* split, slicing and "in" are computed on character offsets as the code   *)
(* computes them.  A Python dict is a sequence of [key, val] entries in    *)
(* insertion order.  A shape value is a record [kind, fields]: kind "felt" *)
(* for the string "felt", kind "set" for a Python set (fields in insertion *)
(* order, no duplicates), kind "tuple" for the tuple made from a set.      *)
(***************************************************************************)
EXTENDS Integers, Sequences, FiniteSets, TLC

VARIABLES hint_code, lines, pc, k, input_vars, output_vars, inout_vars,
          occ, structs_dict, result

vars == <<hint_code, lines, pc, k, input_vars, output_vars, inout_vars,
          occ, structs_dict, result>>

(* --------------------------- bounds ----------------------------------- *)

MaxLines == 2

(* --------------------------- Python strings --------------------------- *)

Min(S) == CHOOSE x \in S : \A y \in S : x <= y

Whitespace == {" ", "\t", "\n", "\r"}

\* s[a:b] with Python's treatment of negative and out-of-range indices
Slice(s, a, b) ==
    LET n  == Len(s)
        a1 == IF a < 0 THEN (IF n + a < 0 THEN 0 ELSE n + a) ELSE (IF a > n THEN n ELSE a)
        b1 == IF b < 0 THEN (IF n + b < 0 THEN 0 ELSE n + b) ELSE (IF b > n THEN n ELSE b)
    IN  IF a1 >= b1 THEN <<>> ELSE SubSeq(s, a1 + 1, b1)

\* s.find(sub, start): lowest 0-based offset >= start where sub occurs, else -1
Find(s, sub, start) ==
    LET n     == Len(s)
        st    == IF start < 0 THEN (IF n + start < 0 THEN 0 ELSE n + start) ELSE start
        cands == {i \in st..(n - Len(sub)) : \A j \in 1..Len(sub) : s[i + j] = sub[j]}
    IN  IF cands = {} THEN -1 ELSE Min(cands)

\* sub in s
Contains(s, sub) == Find(s, sub, 0) # -1

\* s.split(sep) for a one-character separator
RECURSIVE Split(_, _)
Split(s, sep) ==
    LET p == Find(s, <<sep>>, 0)
    IN  IF p = -1 THEN <<s>>
        ELSE <<SubSeq(s, 1, p)>> \o Split(SubSeq(s, p + 2, Len(s)), sep)

\* s.split(): the maximal runs of non-whitespace characters
RECURSIVE SplitWs(_)
SplitWs(s) ==
    IF s = <<>> THEN <<>>
    ELSE IF s[1] \in Whitespace THEN SplitWs(Tail(s))
    ELSE LET ends == {i \in 1..Len(s) : s[i] \in Whitespace}
             e    == IF ends = {} THEN Len(s) + 1 ELSE Min(ends)
         IN  <<SubSeq(s, 1, e - 1)>> \o SplitWs(SubSeq(s, e, Len(s)))

\* sep.join(parts)
RECURSIVE Join(_, _)
Join(sep, parts) ==
    IF parts = <<>> THEN <<>>
    ELSE IF Len(parts) = 1 THEN parts[1]
    ELSE parts[1] \o sep \o Join(sep, Tail(parts))

\* str(i) for i >= 0
Digit(d) == <<CASE d = 0 -> "0" [] d = 1 -> "1" [] d = 2 -> "2" [] d = 3 -> "3"
                [] d = 4 -> "4" [] d = 5 -> "5" [] d = 6 -> "6" [] d = 7 -> "7"
                [] d = 8 -> "8" [] OTHER -> "9">>

RECURSIVE Str(_)
Str(i) == IF i < 10 THEN Digit(i) ELSE Str(i \div 10) \o Digit(i % 10)

Range(s) == {s[i] : i \in 1..Len(s)}

(* --------------------------- literals --------------------------------- *)

IDS      == <<"i", "d", "s", ".">>
EQ       == <<"=">>
NL       == <<"\n">>
PACK     == <<"p", "a", "c", "k", "(">>
RPAREN   == <<")">>
PRIME    == <<"P", "R", "I", "M", "E">>
\* the characters multi_replace is asked to blank: '",)]}('
Patterns == {"\"", ",", ")", "]", "}", "("}

(* --------------------------- shapes and dicts ------------------------- *)

Felt == [kind |-> "felt", fields |-> <<>>]
SetOf(fs) == [kind |-> "set", fields |-> fs]
TupleOf(fs) == [kind |-> "tuple", fields |-> fs]
\* { "d0", "d1", "d2" }
Point == SetOf(<< <<"d", "0">>, <<"d", "1">>, <<"d", "2">> >>)

Keys(d) == {d[i].key : i \in 1..Len(d)}
KeySeq(d) == [i \in 1..Len(d) |-> d[i].key]
Values(d) == [i \in 1..Len(d) |-> d[i].val]
Has(d, key) == key \in Keys(d)
Get(d, key) == d[CHOOSE i \in 1..Len(d) : d[i].key = key].val
\* d[key] = val: an existing key keeps its position
Put(d, key, val) ==
    IF Has(d, key)
    THEN [i \in 1..Len(d) |-> IF d[i].key = key THEN [key |-> key, val |-> val] ELSE d[i]]
    ELSE Append(d, [key |-> key, val |-> val])

\* s.add(x) on a set shape
SetAdd(shape, x) ==
    IF x \in Range(shape.fields) THEN shape ELSE SetOf(Append(shape.fields, x))

(* --------------------------- hint codes ------------------------------- *)

Sp(w) == <<" ">> \o w
ids_a   == IDS \o <<"a">>
ids_ab  == IDS \o <<"a", "b">>
ids_a_x == IDS \o <<"a", ".", "x">>
ids_a_y == IDS \o <<"a", ".", "y">>
ids_b_x == IDS \o <<"b", ".", "x">>
ids_b_y == IDS \o <<"b", ".", "y">>
X_EQ    == <<"x", " ", "=", " ">>
PLUS_1  == <<" ", "+", " ", "1">>
COMMA_PRIME == <<",", " ">> \o PRIME \o RPAREN

\* ids.a = ids.b.x + ids.b.y
LineFields  == ids_a \o Sp(EQ) \o Sp(ids_b_x) \o Sp(<<"+">>) \o Sp(ids_b_y)
\* pack(ids.p, PRIME)   and   pack(ids.q, PRIME)
LinePackP   == PACK \o IDS \o <<"p">> \o COMMA_PRIME
LinePackQ   == PACK \o IDS \o <<"q">> \o COMMA_PRIME
\* ids.ab = ids.a
LinePrefix  == ids_ab \o Sp(EQ) \o Sp(ids_a)
\* x = ids.a
LineRead    == X_EQ \o ids_a
\* ids.a = ids.a + 1
LineInout   == ids_a \o Sp(EQ) \o Sp(ids_a) \o PLUS_1
\* ids.a = 1
LineWrite   == ids_a \o Sp(EQ) \o Sp(<<"1">>)
\* x = ids.a.x   and   x = ids.a.y
LineReadX   == X_EQ \o ids_a_x
LineReadY   == X_EQ \o ids_a_y
\* x = pack(ids.a, PRIME)
LinePackA   == X_EQ \o PACK \o ids_a \o COMMA_PRIME
\* ids.a.y = ids.a.y + 1
LineInoutY  == ids_a_y \o Sp(EQ) \o Sp(ids_a_y) \o PLUS_1
\* x = 1
LineNoIds   == X_EQ \o <<"1">>
\* ids.c.x = 1
LineWriteX  == IDS \o <<"c", ".", "x">> \o Sp(EQ) \o Sp(<<"1">>)

HintLines == {LineFields, LinePackP, LinePackQ, LinePrefix, LineRead, LineInout,
              LineWrite, LineReadX, LineReadY, LinePackA, LineInoutY, LineNoIds,
              LineWriteX}

RECURSIVE LineSeqs(_)
LineSeqs(n) ==
    IF n = 0 THEN {<<>>}
    ELSE {<<l>> \o ls : l \in HintLines, ls \in LineSeqs(n - 1)}

\* the hint codes of 1..MaxLines lines
HintCodes == {Join(NL, ls) : ls \in UNION {LineSeqs(n) : n \in 1..MaxLines}}

(* --------------------------- classify_variables ----------------------- *)

multi_replace(in_str, patterns) ==
    [i \in 1..Len(in_str) |-> IF in_str[i] \in patterns THEN " " ELSE in_str[i]]

var_in_pack(line, stripped_var) ==
    IF ~Contains(line, PACK) THEN FALSE
    ELSE LET var        == IDS \o stripped_var
             pack_start == Find(line, PACK, 0)
             pack_end   == Find(line, RPAREN, pack_start)
         IN  Contains(Slice(line, pack_start, pack_end), var)

HasIds(s) == Contains(s, IDS)

\* lines = [multi_replace(line, '",)]}(') for line in hint_code.split("\n") if "ids." in line]
CleanLine(line) == multi_replace(line, Patterns)

CleanLines(code) ==
    LET kept == SelectSeq(Split(code, "\n"), HasIds)
    IN  [i \in 1..Len(kept) |-> CleanLine(kept[i])]

\* variables = [v for v in line.split() if "ids." in v]
Variables(line) == SelectSeq(SplitWs(line), HasIds)

\* the iterations of the two nested loops, in order
RECURSIVE Occurrences(_, _)
Occurrences(ls, i) ==
    IF i > Len(ls) THEN <<>>
    ELSE LET vs == Variables(ls[i])
         IN  [j \in 1..Len(vs) |-> [line |-> i, var |-> vs[j]]] \o Occurrences(ls, i + 1)

\* Direction with the input branch taken only when the line has an '='
Direction_EqRequired(line, var) ==
    LET e == Find(line, EQ, 0)
    IN  IF Find(line, var, 0) < e /\ e < Find(line, var, e) THEN "inout"
        ELSE IF e # -1 /\ e < Find(line, var, 0) THEN "input"
        ELSE "output"

\* the bucket chosen for var on line: "inout", "input" or "output"
Direction(line, var) ==
    LET e == Find(line, EQ, 0)
    IN  IF Find(line, var, 0) < e /\ e < Find(line, var, e) THEN "inout"
        ELSE IF e < Find(line, var, 0) THEN "input"
        ELSE "output"

\* var.split(".")[1:]
VarField(var) == Tail(Split(var, "."))

\* Insert with a field replacing the fields seen before
Insert_Overwrite(d, line, var) ==
    LET var_field == VarField(var)
        name      == var_field[1]
    IN  IF var_in_pack(line, name) THEN Put(d, name, Point)
        ELSE IF Len(var_field) = 1 THEN Put(d, name, Felt)
        ELSE Put(d, name, SetOf(<<var_field[2]>>))

\* the update of dict_to_insert for one variable token
Insert(d, line, var) ==
    LET var_field == VarField(var)
        name      == var_field[1]
    IN  IF var_in_pack(line, name) THEN Put(d, name, Point)
        ELSE IF Len(var_field) = 1 THEN Put(d, name, Felt)
        ELSE IF ~Has(d, name) \/ Get(d, name) = Felt
             THEN Put(d, name, SetOf(<<var_field[2]>>))
             ELSE Put(d, name, SetAdd(Get(d, name), var_field[2]))

Init ==
    /\ hint_code \in HintCodes
    /\ lines = CleanLines(hint_code)
    /\ pc = IF Occurrences(lines, 1) = <<>> THEN "tuples" ELSE "loop"
    /\ k = 0
    /\ input_vars = <<>>
    /\ output_vars = <<>>
    /\ inout_vars = <<>>
    /\ occ = <<>>
    /\ structs_dict = <<>>
    /\ result = <<>>

\* Updated with an inout occurrence written to output_vars as well
Updated_InoutAlsoOutput(d, which, b, line, var) ==
    IF b = which \/ (b = "inout" /\ which = "output") THEN Insert(d, line, var) ELSE d

\* dict_to_insert names exactly one of the three dicts: d is dict `which`
\* after an occurrence whose direction is b
Updated(d, which, b, line, var) ==
    IF b = which THEN Insert(d, line, var) ELSE d

\* one iteration of "for var in variables"
ClassifyVar ==
    /\ pc = "loop"
    /\ LET all  == Occurrences(lines, 1)
           o    == all[k + 1]
           line == lines[o.line]
           b    == Direction(line, o.var)
       IN  /\ input_vars'  = Updated(input_vars, "input", b, line, o.var)
           /\ output_vars' = Updated(output_vars, "output", b, line, o.var)
           /\ inout_vars'  = Updated(inout_vars, "inout", b, line, o.var)
           /\ occ' = Append(occ, [line |-> o.line, var |-> o.var, bucket |-> b])
           /\ k' = k + 1
           /\ pc' = IF k + 1 = Len(all) THEN "tuples" ELSE "loop"
    /\ UNCHANGED <<hint_code, lines, structs_dict, result>>

\* tuple(v): the iteration order of a set is fixed by how it was built but is
\* otherwise unknown; order maps each set (as built) to one ordering of it
Perms(fs) == {p \in [1..Len(fs) -> Range(fs)] : Range(p) = Range(fs)}

SetShapes(d) == {d[i].val.fields : i \in {j \in 1..Len(d) : d[j].val.kind = "set"}}

Orders(S) == {f \in [S -> UNION {Perms(fs) : fs \in S}] : \A fs \in S : f[fs] \in Perms(fs)}

\* d.update((k, tuple(v) if v != "felt" else "felt") for (k, v) in d.items())
Tupled(d, order) ==
    [i \in 1..Len(d) |->
        [key |-> d[i].key,
         val |-> IF d[i].val = Felt THEN Felt ELSE TupleOf(order[d[i].val.fields])]]

ToTuples ==
    /\ pc = "tuples"
    /\ \E order \in Orders(SetShapes(input_vars) \cup SetShapes(output_vars)
                           \cup SetShapes(inout_vars)) :
          /\ input_vars'  = Tupled(input_vars, order)
          /\ output_vars' = Tupled(output_vars, order)
          /\ inout_vars'  = Tupled(inout_vars, order)
    /\ pc' = "merge"
    /\ UNCHANGED <<hint_code, lines, k, occ, structs_dict, result>>

\* d1 | d2
RECURSIVE Union(_, _)
Union(d1, d2) ==
    IF d2 = <<>> THEN d1 ELSE Union(Put(d1, d2[1].key, d2[1].val), Tail(d2))

\* the merge with the operands swapped: inout_vars | input_vars
Merged_InputWins(inp, ino) == Union(ino, inp)

\* input_vars = (input_vars | inout_vars)
Merged(inp, ino) == Union(inp, ino)

Merge ==
    /\ pc = "merge"
    /\ input_vars' = Merged(input_vars, inout_vars)
    /\ pc' = "assemble"
    /\ UNCHANGED <<hint_code, lines, k, output_vars, inout_vars, occ, structs_dict, result>>

(* --------------------------- template text ---------------------------- *)

FELT == <<"f", "e", "l", "t">>
MYSTRUCT == <<"M", "y", "S", "t", "r", "u", "c", "t">>
T_STRUCT == <<"s", "t", "r", "u", "c", "t", " ">>
T_STRUCT_OPEN == <<" ", "{", "\n">>
T_STRUCT_CLOSE == <<"\n", "}">>
T_TAB == <<"\t">>
T_FIELD_END == <<":", " ", "f", "e", "l", "t", ",">>
T_MAIN_HEAD == <<"f", "u", "n", "c", " ", "m", "a", "i", "n", "(", ")", " ", "{">>
T_MAIN_CALL == <<"\n", "\t", "h", "i", "n", "t", "_", "f", "u", "n", "c", "(">>
T_MAIN_TAIL == <<")", ";", "\n", "\t", "r", "e", "t", "u", "r", "n", "(", ")", ";", "\n", "}">>
T_LET == <<"\n", "\t", "l", "e", "t", " ">>
T_ASSIGN == <<" ", "=", " ">>
T_LPAREN == <<"(">>
T_CALL_END == <<")", ";">>
T_FELT_ASSIGN == <<" ", "=", ";">>
T_COMMA == <<",", " ">>
T_HINT_HEAD == <<"f", "u", "n", "c", " ", "h", "i", "n", "t", "_", "f", "u", "n", "c">>
T_HINT_BODY == <<" ", "{", "\n", "\t", "a", "l", "l", "o", "c", "_", "l", "o", "c", "a", "l", "s", ";", "\n">>
T_HINT_OPEN == <<"\n", "%", "{", "\n">>
T_HINT_CLOSE == <<"\n", "%", "}", "\n", "\t", "r", "e", "t", "u", "r", "n", "(">>
T_HINT_TAIL == <<")", ";", "\n", "}">>
T_COLON == <<":", " ">>
T_LOCAL == <<"\t", "l", "o", "c", "a", "l", " ">>
T_SEMI == <<";">>
T_ARROW == <<")", " ", "-", ">", " ">>
T_ARROW_PAREN == <<")", " ", "-", ">", " ", "(">>
BLOCK_OPEN == <<"%", "{">>
BLOCK_CLOSE == <<"%", "}">>

(* --------------------------- generate_cairo_hint_program -------------- *)

\* fields = { v for v in (input_vars | output_vars).values() }
Fields(inp, out) == Range(Values(Union(inp, out)))

\* the orders in which a set may be enumerated
Enumerations(S) == {p \in [1..Cardinality(S) -> S] : Range(p) = S}

\* structs_dict = { v : "MyStruct" + str(i) for (i, v) in enumerate(fields) if v != "felt"}
\* structs_dict["felt"] = "felt"
StructsDict(enum) ==
    LET named == SelectSeq([i \in 1..Len(enum) |->
                               [key |-> enum[i], val |-> MYSTRUCT \o Str(i - 1)]],
                           LAMBDA e : e.key # Felt)
    IN  Put(named, Felt, FELT)

FieldLine(field_name) == T_TAB \o field_name \o T_FIELD_END

StructText(fields, name) ==
    T_STRUCT \o name \o T_STRUCT_OPEN
    \o Join(NL, [i \in 1..Len(fields) |-> FieldLine(fields[i])]) \o T_STRUCT_CLOSE

DeclaredStructs(sd) ==
    LET decl == SelectSeq(sd, LAMBDA e : e.val # FELT)
    IN  Join(NL, [i \in 1..Len(decl) |-> StructText(decl[i].key.fields, decl[i].val)])

MainVarAssignment(sd, name, var_fields) ==
    IF Get(sd, var_fields) = FELT
    THEN T_LET \o name \o T_FELT_ASSIGN
    ELSE T_LET \o name \o T_ASSIGN \o Get(sd, var_fields) \o T_LPAREN
         \o Join(T_COMMA, [i \in 1..Len(var_fields.fields) |-> var_fields.fields[i] \o EQ])
         \o T_CALL_END

RECURSIVE Concat(_)
Concat(parts) == IF parts = <<>> THEN <<>> ELSE parts[1] \o Concat(Tail(parts))

MainFunc(sd, inp) ==
    T_MAIN_HEAD
    \o Concat([i \in 1..Len(inp) |-> MainVarAssignment(sd, inp[i].key, inp[i].val)])
    \o T_MAIN_CALL \o Join(T_COMMA, KeySeq(inp)) \o T_MAIN_TAIL

HintInputVars(sd, inp) ==
    Join(T_COMMA, [i \in 1..Len(inp) |-> inp[i].key \o T_COLON \o Get(sd, inp[i].val)])

Signature(sd, inp, outs) ==
    IF Len(outs) = 1
    THEN T_LPAREN \o HintInputVars(sd, inp) \o T_ARROW
         \o Concat([i \in 1..Len(outs) |-> Get(sd, outs[i].val)])
    ELSE T_LPAREN \o HintInputVars(sd, inp) \o T_ARROW_PAREN
         \o Join(T_COMMA, [i \in 1..Len(outs) |-> Get(sd, outs[i].val)]) \o RPAREN

LocalVars(sd, out) ==
    Join(NL, [i \in 1..Len(out) |-> T_LOCAL \o out[i].key \o T_COLON \o Get(sd, out[i].val) \o T_SEMI])

\* the cleaned lines of the classifier embedded in place of the hint
EmbeddedHint_Cleaned(code) == Join(NL, CleanLines(code))

\* the text placed between the block markers
EmbeddedHint(code) == code

\* hint_func_fmt.format(signature, local_declarations, hint, output_return)
HintFunc(signature, local_declarations, code, output_return) ==
    T_HINT_HEAD \o signature \o T_HINT_BODY \o local_declarations \o T_HINT_OPEN
    \o EmbeddedHint(code) \o T_HINT_CLOSE \o output_return \o T_HINT_TAIL

\* the three parts concatenated with the declarations last
Program_StructsLast(sd, inp, out, ino, code) ==
    LET outs == Union(out, ino)
    IN  Split(MainFunc(sd, inp), "\n")
        \o Split(HintFunc(Signature(sd, inp, outs), LocalVars(sd, out), code,
                          Join(T_COMMA, KeySeq(outs))), "\n")
        \o Split(DeclaredStructs(sd), "\n")

\* return declared_structs.split("\n") + main_func.split("\n") + hint_func.split("\n")
Program(sd, inp, out, ino, code) ==
    LET outs == Union(out, ino)
    IN  Split(DeclaredStructs(sd), "\n")
        \o Split(MainFunc(sd, inp), "\n")
        \o Split(HintFunc(Signature(sd, inp, outs), LocalVars(sd, out), code,
                          Join(T_COMMA, KeySeq(outs))), "\n")

\* the shapes looked up in structs_dict while the text is built
LookedUp(inp, out, ino) ==
    Range(Values(inp)) \cup Range(Values(Union(out, ino))) \cup Range(Values(out))

Assemble ==
    /\ pc = "assemble"
    /\ \E enum \in Enumerations(Fields(input_vars, output_vars)) :
          LET sd == StructsDict(enum)
          IN  /\ LookedUp(input_vars, output_vars, inout_vars) \subseteq Keys(sd)
              /\ structs_dict' = sd
              /\ result' = Program(sd, input_vars, output_vars, inout_vars, hint_code)
    /\ pc' = "done"
    /\ UNCHANGED <<hint_code, lines, k, input_vars, output_vars, inout_vars, occ>>

\* structs_dict[var_fields] raises KeyError
AssembleKeyError ==
    /\ pc = "assemble"
    /\ \E enum \in Enumerations(Fields(input_vars, output_vars)) :
          LET sd == StructsDict(enum)
          IN  /\ ~(LookedUp(input_vars, output_vars, inout_vars) \subseteq Keys(sd))
              /\ structs_dict' = sd
    /\ pc' = "error"
    /\ UNCHANGED <<hint_code, lines, k, input_vars, output_vars, inout_vars, occ, result>>

Next == ClassifyVar \/ ToTuples \/ Merge \/ Assemble \/ AssembleKeyError

Spec == Init /\ [][Next]_vars

(* --------------------------- reading the run -------------------------- *)

Max(S) == CHOOSE x \in S : \A y \in S : y <= x

\* the text, before cleaning, of the lines the classifier keeps
OrigLines == SelectSeq(Split(hint_code, "\n"), HasIds)

NameOf(var)   == VarField(var)[1]
HasField(var) == Len(VarField(var)) > 1
FieldOf(var)  == VarField(var)[2]

Bucket(b) == CASE b = "input" -> input_vars [] b = "output" -> output_vars
               [] OTHER -> inout_vars

Buckets == {"input", "output", "inout"}

\* classify_variables has returned
Returned == pc \in {"assemble", "done", "error"}

\* the names of the occurrences processed so far, and those sent to bucket b
Names == {NameOf(occ[i].var) : i \in 1..Len(occ)}
OccOf(b, v) == {i \in 1..Len(occ) : occ[i].bucket = b /\ NameOf(occ[i].var) = v}

\* the 0-based offsets at which a whitespace-separated token of line starts
TokenStarts(line) ==
    {i \in 0..(Len(line) - 1) :
        line[i + 1] \notin Whitespace /\ (i = 0 \/ line[i] \in Whitespace)}

TokenAt(line, i) ==
    LET ends == {j \in (i + 1)..Len(line) : line[j] \in Whitespace}
    IN  SubSeq(line, i + 1, IF ends = {} THEN Len(line) ELSE Min(ends) - 1)

\* the offsets in line of the tokens equal to tok
StartsOf(line, tok) == {i \in TokenStarts(line) : TokenAt(line, i) = tok}

\* ids.v (with or without fields) is passed to pack( on this line of the hint
PassedToPack(origLine, v) == var_in_pack(origLine, v)

(* --------------------------- C1 --------------------------------------- *)

\* C1: generate_cairo_hint_program never fails: every shape stored in the
\* merged input mapping, in Output and in Inout is a key of structs_dict
\* (the shapes of Input' | Output, plus "felt"), so no lookup raises.
C1_NeverFails ==
    /\ pc # "error"
    /\ pc = "assemble" =>
          LookedUp(input_vars, output_vars, inout_vars)
              \subseteq (Fields(input_vars, output_vars) \cup {Felt})

(* --------------------------- C2 --------------------------------------- *)

\* C2: when ids.v is passed to a pack(...) call, the occurrence gives v the
\* shape {d0, d1, d2} in the bucket it is assigned to.
C2_PackShape ==
    (pc \in {"loop", "tuples"} /\ occ # <<>>) =>
        LET o == occ[Len(occ)]
        IN  PassedToPack(OrigLines[o.line], NameOf(o.var)) =>
                /\ Has(Bucket(o.bucket), NameOf(o.var))
                /\ Range(Get(Bucket(o.bucket), NameOf(o.var)).fields) = Range(Point.fields)

(* --------------------------- C3 --------------------------------------- *)

\* C3: within a bucket a name that has received a field keeps a non-scalar
\* shape: a later bare occurrence in the same bucket does not make it "felt".
C3_NoDowngrade ==
    pc \in {"loop", "tuples", "merge"} =>
        \A i \in 1..Len(occ) :
            HasField(occ[i].var) =>
                Get(Bucket(occ[i].bucket), NameOf(occ[i].var)) # Felt

(* --------------------------- C4 --------------------------------------- *)

\* C4 (as stated): in the result of classify_variables no name is a key of
\* both Output and Inout.
C4_Disjoint ==
    Returned => Keys(output_vars) \cap Keys(inout_vars) = {}

\* C4 (amended): a name is a key of Output exactly when one of its
\* occurrences was classified Output and a key of Inout exactly when one was
\* classified Inout, so a name is in both only if its occurrences got both
\* directions.
C4_KeysFollowDirections ==
    /\ Keys(output_vars) = {v \in Names : OccOf("output", v) # {}}
    /\ Keys(inout_vars)  = {v \in Names : OccOf("inout", v) # {}}
    /\ Returned =>
          \A v \in Keys(output_vars) \cap Keys(inout_vars) :
              OccOf("output", v) # {} /\ OccOf("inout", v) # {}

\* a name classified Inout twice and never Output, and a name in both
C4_Witness ==
    /\ Returned
    /\ \E v \in Names :
          /\ Cardinality(OccOf("inout", v)) >= 2
          /\ OccOf("output", v) = {}
          /\ v \in Keys(inout_vars) \ Keys(output_vars)

(* --------------------------- C5 --------------------------------------- *)

NoEq(i) == ~Contains(OrigLines[occ[i].line], EQ)

TwoPacks == LinePackP \o NL \o LinePackQ

\* C5 (as stated): a reference on a line with no '=' goes to Output; for
\* pack(ids.p, PRIME) and pack(ids.q, PRIME), p and q are keys of Output and
\* not of Input.
C5_NoEqIsOutput ==
    /\ \A i \in 1..Len(occ) :
          NoEq(i) => occ[i].bucket = "output" /\ Has(output_vars, NameOf(occ[i].var))
    /\ (Returned /\ hint_code = TwoPacks) =>
          /\ {<<"p">>, <<"q">>} \subseteq Keys(output_vars)
          /\ {<<"p">>, <<"q">>} \cap Keys(input_vars) = {}

\* C5 (amended): a reference on a line with no '=' goes to Input; for the two
\* pack lines p and q are keys of Input and of neither Output nor Inout.
C5_NoEqIsInput ==
    /\ \A i \in 1..Len(occ) :
          NoEq(i) => occ[i].bucket = "input" /\ Has(input_vars, NameOf(occ[i].var))
    /\ (Returned /\ hint_code = TwoPacks) =>
          /\ {<<"p">>, <<"q">>} \subseteq Keys(input_vars)
          /\ {<<"p">>, <<"q">>} \cap (Keys(output_vars) \cup Keys(inout_vars)) = {}

C5_Witness ==
    /\ Returned
    /\ hint_code = TwoPacks
    /\ Len(occ) = 2 /\ NoEq(1) /\ NoEq(2)

(* --------------------------- C6 --------------------------------------- *)

DigitChars == {"0", "1", "2", "3", "4", "5", "6", "7", "8", "9"}

\* the synthetic type names (MyStruct followed by its digits) written in line
TypeNamesIn(line) ==
    {LET stop == Min({r \in (p + Len(MYSTRUCT) + 1)..(Len(line) + 1) :
                          r = Len(line) + 1 \/ line[r] \notin DigitChars})
     IN  SubSeq(line, p + 1, stop - 1) :
        p \in {q \in 0..(Len(line) - Len(MYSTRUCT)) :
                   \A j \in 1..Len(MYSTRUCT) : line[q + j] = MYSTRUCT[j]}}

\* the first '%{' line and the last '%}' line of the returned sequence
BlockStart == Min({i \in 1..Len(result) : result[i] = BLOCK_OPEN})
BlockEnd   == Max({i \in 1..Len(result) : result[i] = BLOCK_CLOSE})

InHint(i) == BlockStart < i /\ i < BlockEnd

DeclLine(name) == T_STRUCT \o name \o <<" ", "{">>

\* the lines, outside the embedded hint, that declare type name
DeclsOf(name) == {i \in 1..Len(result) : ~InHint(i) /\ result[i] = DeclLine(name)}

\* the lines of main, of the hint_func signature and of the locals
UseLines ==
    {j \in 1..Len(result) :
        ~InHint(j) /\ Find(result[j], T_STRUCT, 0) # 0 /\ TypeNamesIn(result[j]) # {}}

\* C6: in a returned line sequence every synthetic type name used in main, in
\* the hint_func signature or in a local declaration is declared by exactly
\* one 'struct MyStructN {' line, which comes before every use; distinct
\* shapes never share a type name.
C6_DeclaredOnceBeforeUse ==
    pc = "done" =>
        /\ \A j \in UseLines : \A name \in TypeNamesIn(result[j]) :
              /\ Cardinality(DeclsOf(name)) = 1
              /\ \A i \in DeclsOf(name) : i < j
        /\ \A i, j \in 1..Len(structs_dict) :
              structs_dict[i].key # structs_dict[j].key
                  => structs_dict[i].val # structs_dict[j].val

\* a program that uses two different synthetic types
C6_Witness ==
    /\ pc = "done"
    /\ Cardinality(UNION {TypeNamesIn(result[j]) : j \in UseLines}) >= 2

(* --------------------------- C7 --------------------------------------- *)

\* C7: the lines strictly between the first '%{' line and the last '%}' line
\* of the returned sequence, joined with newlines, are the hint code
\* character for character.
C7_HintVerbatim ==
    pc = "done" =>
        Join(NL, SubSeq(result, BlockStart + 1, BlockEnd - 1)) = hint_code

\* a hint with a line the classifier drops and characters it blanks
C7_Witness ==
    /\ pc = "done"
    /\ Len(Split(hint_code, "\n")) > Len(lines)
    /\ \E i \in 1..Len(hint_code) : hint_code[i] \in Patterns

(* --------------------------- C8 --------------------------------------- *)

\* v is referenced, always as the bare token ids.v, and every reference lies
\* to the right of the first '=' of its line
RhsOnlyBare(v) ==
    /\ \E i \in 1..Len(lines) : StartsOf(lines[i], IDS \o v) # {}
    /\ \A i \in 1..Len(lines) :
          /\ \A s \in TokenStarts(lines[i]) :
                LET tok == TokenAt(lines[i], s)
                IN  (HasIds(tok) /\ NameOf(tok) = v) => tok = IDS \o v
          /\ \A s \in StartsOf(lines[i], IDS \o v) :
                Contains(lines[i], EQ) /\ Find(lines[i], EQ, 0) < s

\* C8: a name referenced only to the right of '=' and never with a field is
\* returned in Input with shape "felt" and is in neither Output nor Inout.
C8_RhsOnlyIsInputFelt ==
    Returned =>
        \A v \in Names :
            RhsOnlyBare(v) =>
                /\ Has(input_vars, v) /\ Get(input_vars, v) = Felt
                /\ v \notin Keys(output_vars) \cup Keys(inout_vars)

(* --------------------------- C9 --------------------------------------- *)

\* no occurrence of v is passed to pack, v occurs in bucket b, and all its
\* occurrences in b carry a field
FieldsOnly(b, v) ==
    /\ OccOf(b, v) # {}
    /\ \A i \in OccOf(b, v) : HasField(occ[i].var)
    /\ \A i \in 1..Len(occ) :
          NameOf(occ[i].var) = v => ~PassedToPack(OrigLines[occ[i].line], v)

FieldsSeen(b, v) == {FieldOf(occ[i].var) : i \in OccOf(b, v)}

IsFieldSet(shape, fs) ==
    /\ shape.kind = "tuple"
    /\ Range(shape.fields) = fs
    /\ Len(shape.fields) = Cardinality(fs)

\* C9: for a name never passed to pack whose occurrences in a bucket all
\* carry a field, the final shape in that bucket is exactly the set of those
\* first-level fields, whatever the order of the occurrences; for
\* "ids.a = ids.b.x + ids.b.y", b is Input {x, y} and a is Output "felt".
C9_FieldAccumulation ==
    /\ pc = "merge" =>
          \A b \in Buckets : \A v \in Names :
              FieldsOnly(b, v) => IsFieldSet(Get(Bucket(b), v), FieldsSeen(b, v))
    /\ Returned =>
          /\ \A b \in {"output", "inout"} : \A v \in Names :
                FieldsOnly(b, v) => IsFieldSet(Get(Bucket(b), v), FieldsSeen(b, v))
          /\ \A v \in Names \ Keys(inout_vars) :
                FieldsOnly("input", v)
                    => IsFieldSet(Get(input_vars, v), FieldsSeen("input", v))
    /\ (Returned /\ hint_code = LineFields) =>
          /\ IsFieldSet(Get(input_vars, <<"b">>), {<<"x">>, <<"y">>})
          /\ Get(output_vars, <<"a">>) = Felt
          /\ Keys(input_vars) = {<<"b">>} /\ Keys(output_vars) = {<<"a">>}

\* two different fields of one name accumulated from two lines
C9_Witness ==
    /\ pc = "merge"
    /\ \E v \in Names :
          /\ FieldsOnly("input", v)
          /\ Cardinality(FieldsSeen("input", v)) = 2
          /\ \E i, j \in OccOf("input", v) : occ[i].line # occ[j].line

(* --------------------------- C10 -------------------------------------- *)

\* the token of occurrence i stands both before and after the first '='
BothSides(i) ==
    LET line == lines[occ[i].line]
        e    == Find(line, EQ, 0)
    IN  /\ e # -1
        /\ \E s \in StartsOf(line, occ[i].var) : s < e
        /\ \E s \in StartsOf(line, occ[i].var) : e < s

C10_InoutPlaced ==
    \A i \in 1..Len(occ) :
        BothSides(i) => occ[i].bucket = "inout" /\ Has(inout_vars, NameOf(occ[i].var))

C10_MergeStep ==
    pc = "merge" =>
        /\ Keys(input_vars') = Keys(input_vars) \cup Keys(inout_vars)
        /\ \A v \in Keys(inout_vars) : Get(input_vars', v) = Get(inout_vars, v)
        /\ output_vars' = output_vars
        /\ inout_vars' = inout_vars

\* C10: a token standing before and after the first '=' of its line goes to
\* Inout; the returned input mapping has the keys of pre-merge Input and of
\* Inout, each Inout name with its Inout shape, and the merge leaves Output
\* and Inout as they were.
C10_InoutAndMerge == [](C10_InoutPlaced) /\ [][C10_MergeStep]_vars

\* Inout overrides a different pre-merge Input shape of the same name
C10_Witness ==
    /\ pc = "assemble"
    /\ \E v \in Keys(inout_vars) :
          /\ \E i \in OccOf("inout", v) : BothSides(i)
          /\ \E i \in OccOf("input", v) : HasField(occ[i].var)
          /\ \A i \in OccOf("input", v) : HasField(occ[i].var)
          /\ Get(inout_vars, v) = Felt
          /\ Get(input_vars, v) = Felt

====
